---- MODULE Spec2Model ----
(***************************************************************************)
(* lczero-server: the task service (GetNextTask, ReportProgress) over its   *)
(* database tables, as implemented in internal/server/task_service.go.      *)
(*                                                                          *)
(* Every request runs on its own goroutine; the only shared state is the    *)
(* database.  A handler is therefore a sequence of steps, one per database  *)
(* statement or clock read, and steps of different handlers interleave.     *)
(* Every database statement can fail; the handler's error branch is then    *)
(* taken.                                                                   *)
(*                                                                          *)
(* unnamed/part_002 is a second version of the same service written on      *)
(* database/sql.  Its validateToken selects 12 columns and scans them into  *)
(* 11 destinations, so every call of that version fails at validation; the  *)
(* version modelled here is the one whose handlers can run.                 *)
(***************************************************************************)
EXTENDS Integers, Sequences, FiniteSets, TLC

\* ------------------------------------------------------------------ bounds
\* Processes are handler goroutines; a call takes the first free one.  The
\* clock has MaxClock + 1 instants: enough for two calls to read the same
\* instant, to read different instants, and for a heartbeat to grow old.
NumProcs == 2       \* handler goroutines that can be in flight together
MaxClock == 1       \* the clock takes the values 0..MaxClock
MaxTasks == 2       \* rows of grpc_tasks
MaxGames == 2       \* rows of match_games
MaxCalls == 3       \* calls the clients make in one run
HeartbeatTimeout == 0   \* the configured heartbeat timeout, in clock ticks
MinClientVersion == 1   \* serverconfig.json: Clients.MinClientVersion
MaxTokenLen == 2    \* length of the token strings whose slice is computed

Procs == 1..NumProcs

\* ------------------------------------------------------------- constants
TaskStatusActive    == "ACTIVE"
TaskStatusCancelled == "CANCELLED"
TaskStatusDone      == "DONE"
TaskStatusPending   == "PENDING"
TaskTypeTraining    == "TRAINING"
TaskTypeMatch       == "MATCH"
TaskTypeSprt        == "SPRT"

TokenReasonAnonymous == "anonymous"
TokenReasonMigrated  == "migrated_credentials"
TokenReasonManual    == "manual"

NULL == -1          \* a nil pointer / SQL NULL

\* Token strings are byte sequences.  TokenPrefix is "lc0-".
TokenPrefix == <<108, 99, 48, 45>>
TokA        == TokenPrefix \o <<97>>      \* "lc0-a", stored, owned by user 1
TokC        == TokenPrefix \o <<99>>      \* "lc0-c", stored, anonymous
TokUnknown  == TokenPrefix \o <<122>>     \* "lc0-z", well formed, not stored
TokShort    == TokenPrefix                \* "lc0-", 4 characters
TokBadPfx   == <<120, 99, 48, 45, 97>>    \* "xc0-a"
TokenInputs == {TokA, TokC, TokUnknown, TokShort, TokBadPfx}

ProgressKinds == {"Training", "Match", "Sprt", "Tuning"}

\* networks table: the ids of the immutable artifact records
NetworkIDs == {1, 2}

\* Network.Sha of the row the lookup by id finds; where it finds none the
\* struct keeps its zero value and Sha is the empty string
NetworkSha(id) ==
    IF id = 1 THEN "sha-1" ELSE IF id = 2 THEN "sha-2" ELSE ""

\* ------------------------------------------------------------- variables
VARIABLES
    clock,        \* time.Now()
    authTokens,   \* auth_tokens: id -> [token, active, userID, lastUsedAt,
                  \*                     issuedReason]
    runs,         \* training_runs: id -> [active, bestNetworkID, trainBook]
    matches,      \* matches: id -> [trainingRunID, candidateID, currentBestID,
                  \*                 gamesCreated, gameCap, done, targetSlice]
    matchGames,   \* match_games: sequence of rows, row i has id i
    tasks,        \* grpc_tasks: sequence of rows, row i has id i
    taskIDIndexed, \* whether grpc_tasks.task_id carries its unique index
    activeDefault, \* the value auth_tokens.active takes in a row inserted without it
    unitOf,       \* history: for grpc_tasks row i, the unit of work it was made for
    pc,           \* per goroutine: position in its handler
    loc,          \* per goroutine: the handler's local variables
    result,       \* the response a handler returned in the last step, if any
    calls         \* how many calls have arrived

vars == <<clock, authTokens, runs, matches, matchGames, tasks, taskIDIndexed,
          activeDefault, unitOf, pc, loc, result, calls>>

dbVars == <<authTokens, runs, matches, matchGames, tasks, taskIDIndexed,
            activeDefault, unitOf>>

\* ------------------------------------------------------------ pure parts

RECURSIVE SumBytes(_)
SumBytes(s) == IF s = <<>> THEN 0 ELSE Head(s) + SumBytes(Tail(s))

\* the slice as the remainder alone, without the + 1
SliceOf_Remainder(tokenStr) ==
    IF Len(tokenStr) > 0 THEN SumBytes(tokenStr) % 3 ELSE 1

\* GetNextTask: deterministic slice of the token string
SliceOf(tokenStr) ==
    IF Len(tokenStr) > 0 THEN (SumBytes(tokenStr) % 3) + 1 ELSE 1

\* validateToken: the format test
TokenFormatOK(token) ==
    ~(Len(token) < 5 \/ SubSeq(token, 1, 4) # TokenPrefix)

\* time.Now().UTC().Format("20060102T150405.000000000"): a fixed-width
\* rendering, here two decimal digits
FormatTime(t) == <<(t \div 10) % 10, t % 10>>

\* string comparison of two task identifiers of equal width
TaskIDLess(a, b) ==
    \E i \in 1..Len(a) :
        /\ \A j \in 1..(i - 1) : a[j] = b[j]
        /\ a[i] < b[i]

\* flip := (mg.ID & 1) == 1
FlipOf(id) == (id % 2) = 1

Min(S) == CHOOSE x \in S : \A y \in S : x <= y

\* WHERE token = ? AND active = ?  ... First
TokenRowsFor(token) ==
    {i \in DOMAIN authTokens :
        authTokens[i].token = token /\ authTokens[i].active}

\* the run query without its condition on the active flag
ActiveRuns_All == DOMAIN runs

\* WHERE active = true ORDER BY id ASC ... First
ActiveRuns == {r \in DOMAIN runs : runs[r].active}

\* the pending-match query without its slice condition
PendingMatches_AnySlice(runID, slice) ==
    {m \in DOMAIN matches :
        ~matches[m].done /\ matches[m].trainingRunID = runID}

\* WHERE done = false AND training_run_id = ? AND
\*       (target_slice = 0 OR target_slice = ?) ORDER BY id ASC ... First
PendingMatches(runID, slice) ==
    {m \in DOMAIN matches :
        /\ ~matches[m].done
        /\ matches[m].trainingRunID = runID
        /\ (matches[m].targetSlice = 0 \/ matches[m].targetSlice = slice)}

\* WHERE task_id = ? ... First
TaskRowsFor(taskID) == {i \in 1..Len(tasks) : tasks[i].taskID = taskID}

\* TaskID string `gorm:"unique_index"`: the insert of a row whose task_id is
\* already stored fails where the migration has created the index.  The tag
\* is the one gorm v1 reads; under gorm.io/gorm (the import of db.Init) the
\* key is uniqueIndex, and go.mod does not pin a gorm version, so the build
\* decides whether the index exists.
TaskIDFree(taskID) == ~taskIDIndexed \/ TaskRowsFor(taskID) = {}

\* the zero value of models.GrpcTask
NoTask == [id |-> 0, taskID |-> <<>>, taskType |-> "", assignedTokenID |-> NULL,
           assignedAt |-> NULL, lastHeartbeatAt |-> NULL, status |-> "",
           cancelledAt |-> NULL, completedAt |-> NULL]

NoLoc == [op |-> "none", token |-> <<>>, tok |-> NULL, now |-> NULL,
          run |-> NULL, net |-> NULL, slice |-> NULL, match |-> NULL,
          mg |-> NULL, taskID |-> <<>>, task |-> NoTask,
          username |-> <<>>, password |-> <<>>, user |-> NULL, attempt |-> 0]

NoResult == [op |-> "none", status |-> "none", err |-> "", kind |-> "none",
             row |-> 0, progress |-> "none", payload |-> <<>>]

\* ------------------------------------------------------------------ Init
\* Two stored tokens; run 1 with best network 1 and run 2 that has no best
\* network yet; two matches of run 1 one game short of their cap (one for
\* slice 2, one for any slice and with no candidate network: candidate_id
\* is a nullable column) and a match of run 2.  Which runs are active
\* and whether the any-slice match is done varies.
Init ==
    /\ clock = 0
    /\ authTokens = <<[token |-> TokA, active |-> TRUE, userID |-> 1,
                       lastUsedAt |-> NULL, issuedReason |-> TokenReasonManual],
                      [token |-> TokC, active |-> TRUE, userID |-> NULL,
                       lastUsedAt |-> NULL, issuedReason |-> TokenReasonManual]>>
    /\ \E act \in {<<TRUE, TRUE>>, <<FALSE, TRUE>>, <<FALSE, FALSE>>} :
         runs = <<[active |-> act[1], bestNetworkID |-> 1,
                   trainBook |-> "book-1"],
                  [active |-> act[2], bestNetworkID |-> 0,
                   trainBook |-> "book-2"]>>
    /\ \E d \in BOOLEAN :
         matches = <<[trainingRunID |-> 1, candidateID |-> 2, currentBestID |-> 1,
                      gamesCreated |-> 9, gameCap |-> 10, done |-> FALSE,
                      targetSlice |-> 2],
                     [trainingRunID |-> 1, candidateID |-> NULL, currentBestID |-> 1,
                      gamesCreated |-> 9, gameCap |-> 10, done |-> d,
                      targetSlice |-> 0],
                     [trainingRunID |-> 2, candidateID |-> 2, currentBestID |-> 1,
                      gamesCreated |-> 0, gameCap |-> 10, done |-> FALSE,
                      targetSlice |-> 0]>>
    /\ matchGames = <<>>
    /\ tasks = <<>>
    /\ taskIDIndexed \in BOOLEAN
    /\ activeDefault = TRUE
    /\ unitOf = <<>>
    /\ pc = [p \in Procs |-> "idle"]
    /\ loc = [p \in Procs |-> NoLoc]
    /\ result = NoResult
    /\ calls = 0

\* a handler returns: the goroutine ends
Return(p, res) ==
    /\ pc' = [pc EXCEPT ![p] = "idle"]
    /\ loc' = [loc EXCEPT ![p] = NoLoc]
    /\ result' = res

ErrorResult(op, e) ==
    [op |-> op, status |-> "error", err |-> e, kind |-> "none", row |-> 0,
     progress |-> "none", payload |-> <<>>]

\* The gRPC status code the client receives with an error.  AuthService
\* builds its errors with status.Error(codes.InvalidArgument | NotFound |
\* Internal, ...).  TaskService returns the error of validateToken or of
\* gorm as it is (`return nil, err`): ErrInvalidTokenFormat, which is
\* gorm.ErrInvalidTransaction, gorm.ErrRecordNotFound or a driver error.
\* Such an error carries no status and reaches the client as codes.Unknown.
StatusCode(e) ==
    IF e = "" THEN "OK"
    ELSE IF e \in {"InvalidArgument", "NotFound", "Internal"} THEN e
    ELSE "Unknown"

\* a call that arrives runs on the first free goroutine slot
FreeSlot(p) == pc[p] = "idle" /\ \A q \in Procs : pc[q] = "idle" => p <= q

InFlight(op) == Cardinality({p \in Procs : loc[p].op = op})

\* a handler goes on
Goto(p, label, newLoc) ==
    /\ pc' = [pc EXCEPT ![p] = label]
    /\ loc' = [loc EXCEPT ![p] = newLoc]
    /\ result' = NoResult

\* the clock advances
Tick ==
    /\ clock < MaxClock
    /\ clock' = clock + 1
    /\ result' = NoResult
    /\ UNCHANGED <<dbVars, pc, loc, calls>>

\* --------------------------------------------------------- validateToken
\* validateToken(token) under the database outcome db: the error it returns
\* ("" for none).  The format test comes before any database statement.
validateTokenErr(token, db) ==
    IF ~TokenFormatOK(token) THEN "InvalidTokenFormat"
    ELSE IF db = "lookup fails" THEN "DBError"
    ELSE IF TokenRowsFor(token) = {} THEN "RecordNotFound"
    ELSE IF db = "save fails" THEN "DBError"
    ELSE ""

\* the row validateToken returns
validateTokenRow(token) == Min(TokenRowsFor(token))

\* tok.LastUsedAt = &now; DB.Save(&tok).  Save writes the whole row that was
\* read; last_used_at is the only column of auth_tokens a handler changes.
TouchToken(tbl, tok, now) == [tbl EXCEPT ![tok].lastUsedAt = now]

\* database outcomes of validateToken that differ for `token`
ValidateOutcomes(token) ==
    IF ~TokenFormatOK(token) THEN {"ok"}
    ELSE IF TokenRowsFor(token) = {} THEN {"ok", "lookup fails"}
    ELSE {"ok", "lookup fails", "save fails"}

\* ----------------------------------------------------------- GetNextTask
\* updateClientInfo: the Updates statement, whose error is dropped
updateClientInfo(tbl, tok, now, ok) ==
    IF ok THEN [tbl EXCEPT ![tok].lastUsedAt = now] ELSE tbl

\* A client calls GetNextTask(token).  validateToken; now := time.Now();
\* updateClientInfo; the lowest-id active TrainingRun; its best network; the
\* caller's slice; and getNextMatchTask's pending-match query.  Any error of
\* that query (no row, or a database failure) makes getNextMatchTask return
\* (nil, nil), and GetNextTask goes on to getNextTrainingTask.
GetNextTask(p, token) ==
    /\ FreeSlot(p)
    /\ calls < MaxCalls
    /\ calls' = calls + 1
    /\ Len(tasks) + InFlight("GetNextTask") < MaxTasks
    /\ Len(matchGames) + InFlight("GetNextTask") < MaxGames
    /\ \E vdb \in ValidateOutcomes(token) :
         IF validateTokenErr(token, vdb) # ""
         THEN /\ Return(p, ErrorResult("GetNextTask", validateTokenErr(token, vdb)))
              /\ UNCHANGED authTokens
         ELSE \E info \in BOOLEAN,
                 db \in {"ok", "run query fails", "match query fails"} :
           LET tok == validateTokenRow(token) IN
           /\ authTokens' = updateClientInfo(TouchToken(authTokens, tok, clock),
                                             tok, clock, info)
           /\ IF db = "run query fails"
              THEN /\ info
                   /\ Return(p, ErrorResult("GetNextTask", "DBError"))
              ELSE IF ActiveRuns = {}
              THEN /\ info /\ db = "ok"
                   /\ Return(p, ErrorResult("GetNextTask", "RecordNotFound"))
              ELSE LET tr == Min(ActiveRuns)
                       slice == SliceOf(token)
                       l == [NoLoc EXCEPT !.op = "GetNextTask", !.token = token,
                                          !.tok = tok, !.now = clock, !.run = tr,
                                          !.net = runs[tr].bestNetworkID,
                                          !.slice = slice]
                   IN IF runs[tr].bestNetworkID \notin NetworkIDs
                      THEN /\ info /\ db = "ok"
                           /\ Return(p, ErrorResult("GetNextTask", "RecordNotFound"))
                      ELSE IF db = "ok" /\ PendingMatches(tr, slice) # {}
                      THEN Goto(p, "gnt_game",
                                [l EXCEPT !.match = Min(PendingMatches(tr, slice))])
                      ELSE Goto(p, "gnt_train_id", l)
    /\ UNCHANGED <<clock, runs, matches, matchGames, tasks, taskIDIndexed, activeDefault, unitOf>>

\* the row DB.Create(mg) inserts: Flip is the zero value
NewMatchGame(id, userID, matchID) ==
    [id |-> id, userID |-> userID, matchID |-> matchID, done |-> FALSE,
     flip |-> FALSE]

\* the insert of the match game as the legacy server did it, counting the
\* game in matches.games_created
getNextMatchTask_CreateGame_Counted(p) ==
    /\ pc[p] = "gnt_game"
    /\ matchGames' = Append(matchGames,
                            NewMatchGame(Len(matchGames) + 1, 0, loc[p].match))
    /\ matches' = [matches EXCEPT ![loc[p].match].gamesCreated = @ + 1]
    /\ Goto(p, "gnt_flip", [loc[p] EXCEPT !.mg = Len(matchGames) + 1])
    /\ UNCHANGED <<clock, authTokens, runs, tasks, taskIDIndexed, activeDefault,
                   unitOf, calls>>

\* DB.Create(mg).  On error getNextMatchTask returns (nil, err) and
\* GetNextTask falls back to the training task.
getNextMatchTask_CreateGame(p) ==
    /\ pc[p] = "gnt_game"
    /\ \E ok \in BOOLEAN :
         IF ok
         THEN LET id == Len(matchGames) + 1
                  uid == IF authTokens[loc[p].tok].userID # NULL
                         THEN authTokens[loc[p].tok].userID ELSE 0
              IN /\ matchGames' = Append(matchGames,
                                         NewMatchGame(id, uid, loc[p].match))
                 /\ Goto(p, "gnt_flip", [loc[p] EXCEPT !.mg = id])
         ELSE /\ UNCHANGED matchGames
              /\ Goto(p, "gnt_train_id", loc[p])
    /\ UNCHANGED <<clock, authTokens, runs, matches, tasks, taskIDIndexed, activeDefault, unitOf, calls>>

\* DB.Model(mg).Update("flip", flip): the error is dropped
UpdateFlip(tbl, id, flip, ok) ==
    IF ok THEN [tbl EXCEPT ![id].flip = flip] ELSE tbl

\* flip := (mg.ID & 1) == 1; the flip update; the payload; and
\* taskID := time.Now().UTC().Format(...)
getNextMatchTask_UpdateFlip(p) ==
    /\ pc[p] = "gnt_flip"
    /\ \E ok \in BOOLEAN :
         matchGames' = UpdateFlip(matchGames, loc[p].mg, FlipOf(loc[p].mg), ok)
    /\ Goto(p, "gnt_match_ins", [loc[p] EXCEPT !.taskID = FormatTime(clock)])
    /\ UNCHANGED <<clock, authTokens, runs, matches, tasks, taskIDIndexed, activeDefault, unitOf, calls>>

\* a GrpcTask built with the task type of the match branch in both branches
NewGrpcTask_MatchType(id, taskID, taskType, tokID, now) ==
    [id |-> id, taskID |-> taskID, taskType |-> TaskTypeMatch,
     assignedTokenID |-> IF tokID = 0 THEN NULL ELSE tokID,
     assignedAt |-> now, lastHeartbeatAt |-> now,
     status |-> TaskStatusActive,
     cancelledAt |-> NULL, completedAt |-> NULL]

\* a GrpcTask built without its LastHeartbeatAt
NewGrpcTask_NoHeartbeat(id, taskID, taskType, tokID, now) ==
    [id |-> id, taskID |-> taskID, taskType |-> taskType,
     assignedTokenID |-> IF tokID = 0 THEN NULL ELSE tokID,
     assignedAt |-> now, lastHeartbeatAt |-> NULL,
     status |-> TaskStatusActive,
     cancelledAt |-> NULL, completedAt |-> NULL]

\* the models.GrpcTask both branches build
NewGrpcTask(id, taskID, taskType, tokID, now) ==
    [id |-> id, taskID |-> taskID, taskType |-> taskType,
     assignedTokenID |-> IF tokID = 0 THEN NULL ELSE tokID,
     assignedAt |-> now, lastHeartbeatAt |-> now,
     status |-> TaskStatusActive,
     cancelledAt |-> NULL, completedAt |-> NULL]

\* the TaskResponse: TaskId, the kind of the payload and the content hashes
\* of its network resources
OkResponse(taskID, kind, row, payload) ==
    [op |-> "GetNextTask", status |-> "ok", err |-> "", kind |-> kind,
     row |-> row, progress |-> "none", payload |-> payload,
     taskID |-> taskID]

\* matchTask: Baseline.Network.Sha256 = pendingMatch.CurrentBest.Sha and
\* Candidate.Network.Sha256 = pendingMatch.Candidate.Sha, as preloaded
MatchPayload(m) ==
    <<NetworkSha(matches[m].currentBestID), NetworkSha(matches[m].candidateID)>>

\* trainingTask: Engine.Network.Sha256 = net.Sha, OpeningBook.Url = tr.TrainBook
TrainingPayload(tr, net) == <<NetworkSha(net), runs[tr].trainBook>>

\* DB.Create(grpcTask) of the match branch, then the MATCH response.  On
\* error getNextMatchTask returns (nil, err) and GetNextTask falls back to
\* the training task.
getNextMatchTask_CreateTask(p) ==
    /\ pc[p] = "gnt_match_ins"
    /\ \E ok \in BOOLEAN :
         IF ok /\ TaskIDFree(loc[p].taskID)
         THEN /\ tasks' = Append(tasks,
                     NewGrpcTask(Len(tasks) + 1, loc[p].taskID, TaskTypeMatch,
                                 loc[p].tok, loc[p].now))
              /\ unitOf' = Append(unitOf, <<TaskTypeMatch, loc[p].match>>)
              /\ Return(p, OkResponse(loc[p].taskID, TaskTypeMatch, Len(tasks) + 1,
                                      MatchPayload(loc[p].match)))
         ELSE /\ UNCHANGED <<tasks, unitOf>>
              /\ Goto(p, "gnt_train_id", loc[p])
    /\ UNCHANGED <<clock, authTokens, runs, matches, matchGames, taskIDIndexed,
                   activeDefault, calls>>

\* getNextTrainingTask: taskID := time.Now().UTC().Format(...)
getNextTrainingTask_TaskID(p) ==
    /\ pc[p] = "gnt_train_id"
    /\ Goto(p, "gnt_train_ins", [loc[p] EXCEPT !.taskID = FormatTime(clock)])
    /\ UNCHANGED <<clock, dbVars, calls>>

\* DB.Create(grpcTask) of the training branch, then the TRAINING response
getNextTrainingTask_CreateTask(p) ==
    /\ pc[p] = "gnt_train_ins"
    /\ \E ok \in BOOLEAN :
         IF ok /\ TaskIDFree(loc[p].taskID)
         THEN /\ tasks' = Append(tasks,
                     NewGrpcTask(Len(tasks) + 1, loc[p].taskID, TaskTypeTraining,
                                 loc[p].tok, loc[p].now))
              /\ unitOf' = Append(unitOf, <<TaskTypeTraining, loc[p].run>>)
              /\ Return(p, OkResponse(loc[p].taskID, TaskTypeTraining, Len(tasks) + 1,
                                      TrainingPayload(loc[p].run, loc[p].net)))
         ELSE /\ UNCHANGED <<tasks, unitOf>>
              /\ Return(p, ErrorResult("GetNextTask", "DBError"))
    /\ UNCHANGED <<clock, authTokens, runs, matches, matchGames, taskIDIndexed,
                   activeDefault, calls>>

\* -------------------------------------------------------- ReportProgress
\* task identifiers a client can send: every identifier the clock can have
\* produced (assigned or not)
TaskIDInputs == {FormatTime(t) : t \in 0..MaxClock}

\* ReportProgress with a lookup of the assignment that also requires the
\* caller to be its assignee
ReportProgress_AssigneeOnly(p, token, taskID) ==
    /\ FreeSlot(p)
    /\ calls < MaxCalls
    /\ calls' = calls + 1
    /\ \E vdb \in ValidateOutcomes(token) :
         IF validateTokenErr(token, vdb) # ""
         THEN /\ taskID = FormatTime(0)
              /\ Return(p, ErrorResult("ReportProgress", validateTokenErr(token, vdb)))
              /\ UNCHANGED authTokens
         ELSE \E ok \in BOOLEAN :
           LET mine == {i \in TaskRowsFor(taskID) :
                          tasks[i].assignedTokenID = validateTokenRow(token)}
           IN
           /\ authTokens' = TouchToken(authTokens, validateTokenRow(token), clock)
           /\ IF ~ok
              THEN /\ taskID = FormatTime(0)
                   /\ Return(p, ErrorResult("ReportProgress", "DBError"))
              ELSE IF mine = {}
              THEN Return(p, ErrorResult("ReportProgress", "RecordNotFound"))
              ELSE LET row == tasks[Min(mine)] IN
                   Goto(p, "rp_save",
                        [NoLoc EXCEPT !.op = "ReportProgress", !.token = token,
                                      !.tok = validateTokenRow(token),
                                      !.taskID = taskID,
                                      !.task = [row EXCEPT !.lastHeartbeatAt = clock],
                                      !.now = clock])
    /\ UNCHANGED <<clock, runs, matches, matchGames, tasks, taskIDIndexed, activeDefault, unitOf>>

\* A client calls ReportProgress(token, taskID, progress); the progress
\* payload is fixed where the handler reads it (ReportProgress_Save).  validateToken;
\* DB.Where("task_id = ?", req.TaskId).First(&task); now := time.Now();
\* task.LastHeartbeatAt = &now (on the handler's copy of the row).
ReportProgress(p, token, taskID) ==
    /\ FreeSlot(p)
    /\ calls < MaxCalls
    /\ calls' = calls + 1
    /\ \E vdb \in ValidateOutcomes(token) :
         IF validateTokenErr(token, vdb) # ""
         THEN /\ taskID = FormatTime(0)
              /\ Return(p, ErrorResult("ReportProgress", validateTokenErr(token, vdb)))
              /\ UNCHANGED authTokens
         ELSE \E ok \in BOOLEAN :
           /\ authTokens' = TouchToken(authTokens, validateTokenRow(token), clock)
           /\ IF ~ok
              THEN /\ taskID = FormatTime(0)
                   /\ Return(p, ErrorResult("ReportProgress", "DBError"))
              ELSE IF TaskRowsFor(taskID) = {}
              THEN Return(p, ErrorResult("ReportProgress", "RecordNotFound"))
              ELSE LET row == tasks[Min(TaskRowsFor(taskID))] IN
                   Goto(p, "rp_save",
                        [NoLoc EXCEPT !.op = "ReportProgress", !.token = token,
                                      !.tok = validateTokenRow(token),
                                      !.taskID = taskID,
                                      !.task = [row EXCEPT !.lastHeartbeatAt = clock],
                                      !.now = clock])
    /\ UNCHANGED <<clock, runs, matches, matchGames, tasks, taskIDIndexed, activeDefault, unitOf>>

\* what the stopping rule (spec 4.4) yields on the tally an SPRT report
\* brings the task to: a terminal verdict, continue, or no verdict where the
\* evaluation of the LLR fails
SprtVerdicts == {"accept", "reject", "continue", "failed"}

\* the client version a report comes with: below the configured minimum, or
\* the minimum itself
ReportVersions == {MinClientVersion - 1, MinClientVersion}

\* req.GetProgress(): the kind of the progress payload and what it carries.
\* A match report uploads game results and comes from a client of some
\* version; so does an SPRT report on an SPRT task, whose outcomes add to
\* the task's tally, to which the verdict belongs (no other task has a
\* tally).
ReportInputs(taskType) ==
    {[kind |-> k, version |-> MinClientVersion, verdict |-> "none"] :
        k \in ProgressKinds \ {"Match", "Sprt"}}
    \cup {[kind |-> "Match", version |-> v, verdict |-> "none"] :
            v \in ReportVersions}
    \cup (IF taskType = TaskTypeSprt
          THEN {[kind |-> "Sprt", version |-> v, verdict |-> d] :
                   v \in ReportVersions, d \in SprtVerdicts}
          ELSE {[kind |-> "Sprt", version |-> MinClientVersion,
                 verdict |-> "none"]})

\* a DB.Save that writes the status columns and leaves the heartbeat alone
SaveTask_NoHeartbeat(t, row) ==
    [t EXCEPT ![row.id] = [row EXCEPT !.lastHeartbeatAt = t[row.id].lastHeartbeatAt]]

\* DB.Save(&task): UPDATE of every column of the row with the handler's copy
SaveTask(t, row) == [t EXCEPT ![row.id] = row]

\* an answer that reports every status other than ACTIVE as CANCELLED
ProgressStatus_ActiveOrNot(task) ==
    IF task.status # TaskStatusActive THEN "CANCELLED" ELSE "ACTIVE"

\* the status ReportProgress answers with
ProgressStatus(task) ==
    IF task.status = TaskStatusCancelled THEN "CANCELLED" ELSE "ACTIVE"

\* the switch on the progress kind (every case is empty), DB.Save(&task),
\* and the response
ReportProgress_Save(p) ==
    /\ pc[p] = "rp_save"
    /\ \E report \in ReportInputs(loc[p].task.taskType), ok \in BOOLEAN :
         IF ok
         THEN /\ tasks' = SaveTask(tasks, loc[p].task)
              /\ Return(p, [op |-> "ReportProgress", status |-> "ok", err |-> "",
                            kind |-> ProgressStatus(loc[p].task),
                            row |-> loc[p].task.id, progress |-> report.kind,
                            payload |-> <<report.version, report.verdict>>])
         ELSE /\ report = [kind |-> "Match", version |-> MinClientVersion,
                           verdict |-> "none"]
              /\ UNCHANGED tasks
              /\ Return(p, ErrorResult("ReportProgress", "DBError"))
    /\ UNCHANGED <<clock, authTokens, runs, matches, matchGames, taskIDIndexed,
                   activeDefault, unitOf, calls>>

\* ------------------------------------------------------------ environment
\* an operator or the scheduler marks an assignment cancelled (spec 4.1)
OperatorCancel(i) ==
    /\ i \in 1..Len(tasks)
    /\ tasks[i].status = TaskStatusActive
    /\ tasks' = [tasks EXCEPT ![i].status = TaskStatusCancelled,
                              ![i].cancelledAt = clock]
    /\ result' = NoResult
    /\ UNCHANGED <<clock, authTokens, runs, matches, matchGames, taskIDIndexed,
                   activeDefault, unitOf, pc, loc, calls>>

\* the run-level stop condition completes an assignment (spec 4.1)
ExternalDone(i) ==
    /\ i \in 1..Len(tasks)
    /\ tasks[i].status = TaskStatusActive
    /\ tasks' = [tasks EXCEPT ![i].status = TaskStatusDone,
                              ![i].completedAt = clock]
    /\ result' = NoResult
    /\ UNCHANGED <<clock, authTokens, runs, matches, matchGames, taskIDIndexed,
                   activeDefault, unitOf, pc, loc, calls>>

HandlerStep(p) ==
    \/ getNextMatchTask_CreateGame(p)
    \/ getNextMatchTask_UpdateFlip(p)
    \/ getNextMatchTask_CreateTask(p)
    \/ getNextTrainingTask_TaskID(p)
    \/ getNextTrainingTask_CreateTask(p)
    \/ ReportProgress_Save(p)

Next ==
    \/ Tick
    \/ \E p \in Procs, token \in TokenInputs : GetNextTask(p, token)
    \/ \E p \in Procs, token \in TokenInputs, taskID \in TaskIDInputs :
          ReportProgress(p, token, taskID)
    \/ \E p \in Procs : HandlerStep(p)
    \/ \E i \in 1..MaxTasks : OperatorCancel(i)
    \/ \E i \in 1..MaxTasks : ExternalDone(i)

Spec == Init /\ [][Next]_vars

\* Handlers that have started run to their end and the clock advances.
\* Clients need not call and the operator need not act.
FairSpec ==
    /\ Spec
    /\ \A p \in Procs : WF_vars(HandlerStep(p))
    /\ WF_vars(Tick)

\* ------------------------------------------------------------ AuthService
\* internal/server/auth_service.go over the users and auth_tokens tables.

\* generateUniqueToken's constants
tokenLen == 64
maxAttempts == 10

\* MigrateCredentials: len(req.Username) > 32
MaxUsernameLen == 32

\* users: the legacy credentials, read only; row i has id i
Users == <<[username |-> <<97>>, password |-> <<112>>],
           [username |-> <<98>>, password |-> <<113>>]>>

\* requests: no name, a stored name, an unknown name, a name of 33 bytes;
\* no password, the password of user 1, the password of user 2
UsernameInputs == {<<>>, <<97>>, <<122>>, [i \in 1..(MaxUsernameLen + 1) |-> 97]}
PasswordInputs == {<<>>, <<112>>, <<113>>}

\* rand.Read(raw): raw is tokenLen/2 bytes; the values drawn here
RandomBytes == {0, 171}
RawInputs == {[i \in 1..(tokenLen \div 2) |-> b] : b \in RandomBytes}

\* hex.EncodeToString: two lower-case hexadecimal digits per byte
HexDigit(n) == IF n < 10 THEN 48 + n ELSE 87 + n

RECURSIVE EncodeToString(_)
EncodeToString(raw) ==
    IF raw = <<>> THEN <<>>
    ELSE <<HexDigit(Head(raw) \div 16), HexDigit(Head(raw) % 16)>>
         \o EncodeToString(Tail(raw))

\* token := prefix + hex.EncodeToString(raw)
CandidateToken(raw) == TokenPrefix \o EncodeToString(raw)

\* the user query without its condition on the username
UsersNamed_Any(username) == DOMAIN Users

\* SELECT ... FROM users WHERE username = $1
UsersNamed(username) == {u \in DOMAIN Users : Users[u].username = username}

\* a count that finds no row whatever is stored
TokenCount_Zero(token) == 0

\* SELECT COUNT(1) FROM auth_tokens WHERE token = $1
TokenCount(token) ==
    Cardinality({i \in DOMAIN authTokens : authTokens[i].token = token})

\* an insert into auth_tokens that no constraint checks
TokenFree_NoIndex(token) == TRUE

\* token TEXT UNIQUE: the insert of a stored token string is rejected
TokenFree(token) == TokenCount(token) = 0

\* A client calls MigrateCredentials(username, password): the argument
\* checks and the lookup of the user by username.
MigrateCredentials(p, username, password) ==
    /\ FreeSlot(p)
    /\ calls < MaxCalls
    /\ calls' = calls + 1
    /\ IF Len(username) = 0 \/ Len(username) > MaxUsernameLen \/ Len(password) = 0
       THEN Return(p, ErrorResult("MigrateCredentials", "InvalidArgument"))
       ELSE \E ok \in BOOLEAN :
              IF ~ok
              THEN Return(p, ErrorResult("MigrateCredentials", "Internal"))
              ELSE IF UsersNamed(username) = {}
              THEN Return(p, ErrorResult("MigrateCredentials", "NotFound"))
              ELSE Goto(p, "auth_gen",
                        [NoLoc EXCEPT !.op = "MigrateCredentials",
                                      !.username = username,
                                      !.password = password,
                                      !.user = Min(UsersNamed(username))])
    /\ UNCHANGED <<clock, dbVars>>

\* A client calls GetAnonymousToken.
GetAnonymousToken(p) ==
    /\ FreeSlot(p)
    /\ calls < MaxCalls
    /\ calls' = calls + 1
    /\ Goto(p, "auth_gen", [NoLoc EXCEPT !.op = "GetAnonymousToken"])
    /\ UNCHANGED <<clock, dbVars>>

\* One round of generateUniqueToken's loop: the bound on the attempts, the
\* random bytes, the candidate and the count of its rows.
generateUniqueToken(p) ==
    /\ pc[p] = "auth_gen"
    /\ IF loc[p].attempt >= maxAttempts
       THEN Return(p, ErrorResult(loc[p].op, "Internal"))
       ELSE \E raw \in RawInputs, out \in {"ok", "rand fails", "count fails"} :
              IF out # "ok"
              THEN /\ raw = CHOOSE r \in RawInputs : TRUE
                   /\ Return(p, ErrorResult(loc[p].op, "Internal"))
              ELSE IF TokenCount(CandidateToken(raw)) = 0
              THEN Goto(p, "auth_ins",
                        [loc[p] EXCEPT !.token = CandidateToken(raw)])
              ELSE Goto(p, "auth_gen",
                        [loc[p] EXCEPT !.attempt = loc[p].attempt + 1])
    /\ UNCHANGED <<clock, dbVars, calls>>

\* the row InsertAuthToken stores: token, issued_reason, created_at and
\* user_id are supplied (created_at is read by nothing and is left out);
\* every other column takes its default
NewAuthToken(token, reason, userID) ==
    [token |-> token, active |-> activeDefault, userID |-> userID,
     lastUsedAt |-> NULL, issuedReason |-> reason]

\* InsertAuthToken and the response, in MigrateCredentials and in
\* GetAnonymousToken
InsertAuthToken(p) ==
    /\ pc[p] = "auth_ins"
    /\ \E ok \in BOOLEAN :
         IF ok /\ TokenFree(loc[p].token)
         THEN /\ authTokens' =
                   Append(authTokens,
                          NewAuthToken(loc[p].token,
                                       IF loc[p].op = "MigrateCredentials"
                                       THEN TokenReasonMigrated
                                       ELSE TokenReasonAnonymous,
                                       loc[p].user))
              /\ Return(p, [op |-> loc[p].op, status |-> "ok", err |-> "",
                            kind |-> "none", row |-> Len(authTokens) + 1,
                            progress |-> "none", payload |-> loc[p].token])
         ELSE /\ UNCHANGED authTokens
              /\ Return(p, ErrorResult(loc[p].op, "Internal"))
    /\ UNCHANGED <<clock, runs, matches, matchGames, tasks, taskIDIndexed,
                   activeDefault, unitOf, calls>>

\* the token strings clients present to the task service: every string the
\* auth service can have returned, and one it cannot
PresentedTokens == {CandidateToken(raw) : raw \in RawInputs} \cup {TokUnknown}

\* One stored token (equal to a candidate the generator can draw), a run
\* with its best network and no match.  Whether auth_tokens.active defaults
\* to true is the deployment's: the INSERT does not supply the column and
\* neither schema.sql nor models.AuthToken declares it.
AuthInit ==
    /\ clock = 0
    /\ authTokens = <<[token |-> CandidateToken([i \in 1..(tokenLen \div 2) |-> 0]),
                       active |-> TRUE, userID |-> NULL, lastUsedAt |-> NULL,
                       issuedReason |-> TokenReasonManual]>>
    /\ runs = <<[active |-> TRUE, bestNetworkID |-> 1, trainBook |-> "book-1"]>>
    /\ matches = <<>>
    /\ matchGames = <<>>
    /\ tasks = <<>>
    /\ taskIDIndexed = TRUE
    /\ activeDefault \in BOOLEAN
    /\ unitOf = <<>>
    /\ pc = [p \in Procs |-> "idle"]
    /\ loc = [p \in Procs |-> NoLoc]
    /\ result = NoResult
    /\ calls = 0

AuthNext ==
    \/ \E p \in Procs, username \in UsernameInputs, password \in PasswordInputs :
          MigrateCredentials(p, username, password)
    \/ \E p \in Procs : GetAnonymousToken(p)
    \/ \E p \in Procs : generateUniqueToken(p)
    \/ \E p \in Procs : InsertAuthToken(p)
    \/ \E p \in Procs, token \in PresentedTokens : GetNextTask(p, token)
    \/ \E p \in Procs : getNextTrainingTask_TaskID(p)
    \/ \E p \in Procs : getNextTrainingTask_CreateTask(p)

AuthSpec == AuthInit /\ [][AuthNext]_vars

\* ------------------------------------------------------ the four calls
\* GetNextTask, ReportProgress, MigrateCredentials and GetAnonymousToken
\* together, over the tables of AuthInit and one pending match of the run.
AllInit ==
    /\ clock = 0
    /\ authTokens = <<[token |-> CandidateToken([i \in 1..(tokenLen \div 2) |-> 0]),
                       active |-> TRUE, userID |-> NULL, lastUsedAt |-> NULL,
                       issuedReason |-> TokenReasonManual]>>
    /\ runs = <<[active |-> TRUE, bestNetworkID |-> 1, trainBook |-> "book-1"]>>
    /\ matches = <<[trainingRunID |-> 1, candidateID |-> 2, currentBestID |-> 1,
                    gamesCreated |-> 9, gameCap |-> 10, done |-> FALSE,
                    targetSlice |-> 0]>>
    /\ matchGames = <<>>
    /\ tasks = <<>>
    /\ taskIDIndexed = TRUE
    /\ activeDefault = TRUE
    /\ unitOf = <<>>
    /\ pc = [p \in Procs |-> "idle"]
    /\ loc = [p \in Procs |-> NoLoc]
    /\ result = NoResult
    /\ calls = 0

AllNext ==
    \/ \E p \in Procs, username \in UsernameInputs, password \in PasswordInputs :
          MigrateCredentials(p, username, password)
    \/ \E p \in Procs : GetAnonymousToken(p)
    \/ \E p \in Procs : generateUniqueToken(p)
    \/ \E p \in Procs : InsertAuthToken(p)
    \/ \E p \in Procs, token \in PresentedTokens : GetNextTask(p, token)
    \/ \E p \in Procs, token \in PresentedTokens, taskID \in TaskIDInputs :
          ReportProgress(p, token, taskID)
    \/ \E p \in Procs : HandlerStep(p)

AllSpec == AllInit /\ [][AllNext]_vars

\* ------------------------------------------------- ReportProgress alone
\* ReportProgress over assignments as the pipeline and the operators can
\* have left them: an SPRT assignment of token 1 in any of the four
\* statuses and an ACTIVE training assignment of token 2.
TaskStatuses == {TaskStatusActive, TaskStatusCancelled, TaskStatusDone,
                 TaskStatusPending}

ReportInit ==
    /\ clock = 0
    /\ authTokens = <<[token |-> TokA, active |-> TRUE, userID |-> 1,
                       lastUsedAt |-> NULL, issuedReason |-> TokenReasonManual],
                      [token |-> TokC, active |-> TRUE, userID |-> NULL,
                       lastUsedAt |-> NULL, issuedReason |-> TokenReasonManual]>>
    /\ runs = <<[active |-> TRUE, bestNetworkID |-> 1, trainBook |-> "book-1"]>>
    /\ matches = <<>>
    /\ matchGames = <<>>
    /\ \E st \in TaskStatuses :
         tasks = <<[id |-> 1, taskID |-> FormatTime(0), taskType |-> TaskTypeSprt,
                    assignedTokenID |-> 1, assignedAt |-> 0,
                    lastHeartbeatAt |-> 0, status |-> st,
                    cancelledAt |-> IF st = TaskStatusCancelled THEN 0 ELSE NULL,
                    completedAt |-> IF st = TaskStatusDone THEN 0 ELSE NULL],
                   NewGrpcTask(2, FormatTime(1), TaskTypeTraining, 2, 0)>>
    /\ taskIDIndexed = TRUE
    /\ activeDefault = TRUE
    /\ unitOf = <<<<TaskTypeSprt, 1>>, <<TaskTypeTraining, 1>>>>
    /\ pc = [p \in Procs |-> "idle"]
    /\ loc = [p \in Procs |-> NoLoc]
    /\ result = NoResult
    /\ calls = 0

ReportNext ==
    \/ Tick
    \/ \E p \in Procs, token \in TokenInputs, taskID \in TaskIDInputs :
          ReportProgress(p, token, taskID)
    \/ \E p \in Procs : ReportProgress_Save(p)
    \/ \E i \in 1..MaxTasks : OperatorCancel(i)
    \/ \E i \in 1..MaxTasks : ExternalDone(i)

ReportSpec == ReportInit /\ [][ReportNext]_vars

\* ------------------------------------------------------- the slice alone
\* GetNextTask's slice computation (tokenStr := req.GetToken(); slice := ...)
\* applied to arbitrary token strings, the empty one included: every request
\* carries a string of at most MaxTokenLen bytes out of SliceBytes, or one
\* of the tokens of TokenInputs.
SliceBytes == {0, 1, 2, 97, 255}

RECURSIVE StringsUpTo(_)
StringsUpTo(n) ==
    IF n = 0 THEN {<<>>}
    ELSE StringsUpTo(n - 1) \cup
         {Append(t, b) : t \in {u \in StringsUpTo(n - 1) : Len(u) = n - 1},
                         b \in SliceBytes}

SliceInputs == StringsUpTo(MaxTokenLen) \cup TokenInputs

\* two requests, so that the same string is computed twice
SliceProcs == {p \in Procs : p <= 2}

SliceInit ==
    /\ clock = 0
    /\ authTokens = <<>>
    /\ runs = <<>>
    /\ matches = <<>>
    /\ matchGames = <<>>
    /\ tasks = <<>>
    /\ taskIDIndexed = TRUE
    /\ activeDefault = TRUE
    /\ unitOf = <<>>
    /\ pc = [p \in Procs |-> IF p \in SliceProcs THEN "slice" ELSE "idle"]
    /\ \E f \in [SliceProcs -> SliceInputs] :
         loc = [p \in Procs |->
                  IF p \in SliceProcs
                  THEN [NoLoc EXCEPT !.op = "slice", !.token = f[p]]
                  ELSE NoLoc]
    /\ result = NoResult
    /\ calls = 0

ComputeSlice(p) ==
    /\ pc[p] = "slice"
    /\ Goto(p, "sliced", [loc[p] EXCEPT !.slice = SliceOf(loc[p].token)])
    /\ UNCHANGED <<clock, dbVars, calls>>

SliceNext == \E p \in Procs : ComputeSlice(p)

SliceSpec == SliceInit /\ [][SliceNext]_vars

\* ------------------------------------------------------ the SPRT engine
\* internal/sprt: PentanomialSPRT, MLE_tvalue and secular.  The floating
\* point quantities enter through what the control flow tests of them: the
\* signs of the extreme support values v and w, the signs of f at the two
\* bracket endpoints, the number of halvings the bracket needs before
\* (b-a)/2 < 1e-12, and, per step, whether |f(c)| < 1e-12, whether the
\* fixed-point iteration has settled and whether stats() accepts the pdf.

\* const maxIter = 100
maxIter == 100

\* for iter := 0; iter < 10; iter++
mleIters == 10

Signs == {-1, 0, 1}

\* len(results) of the call
ResultLens == {0, 4, 5, 6}

\* halvings of the bracket until (b-a)/2 < 1e-12
BracketWidths == {0, 1, maxIter - 1, maxIter}

ErrResultsLength == "results must have length 5"
ErrSecularSign == "secular: v*w >= 0"
ErrNotBracketed == "secular: root not bracketed"
ErrNotConverged == "secular: did not converge"

\* secular with its test of the signs of f at the endpoints left out
secular_Entry_NoBracketCheck(v, w, fa, fb) ==
    IF v * w >= 0 THEN ErrSecularSign ELSE ""

\* secular, up to the loop: the two tests that return an error
secular_Entry(v, w, fa, fb) ==
    IF v * w >= 0 THEN ErrSecularSign
    ELSE IF fa * fb > 0 THEN ErrNotBracketed
    ELSE ""

\* MLE_tvalue: x, err := secular(pdf1); if err != nil { return nil, err }
MLE_tvalue_Err(secularErr) == secularErr

\* PentanomialSPRT: if err != nil { return 0, err } ... return N * s, nil
PentanomialSPRT_Result(err) ==
    [NoResult EXCEPT !.op = "PentanomialSPRT",
                     !.status = IF err = "" THEN "ok" ELSE "error",
                     !.err = err,
                     !.kind = IF err = "" THEN "N*s" ELSE "0"]

\* the locals of the three functions; v, w, fa, fb, width and i are those of
\* the call of secular in progress, or of the one the call ended in
NoSprt == [n |-> 0, hyp |-> 0, iter |-> 0, v |-> 0, w |-> 0, fa |-> 0,
           fb |-> 0, width |-> 0, i |-> 0]

\* secular has returned its root to MLE_tvalue: its locals are gone
AfterSecular(l) ==
    [l EXCEPT !.v = 0, !.w = 0, !.fa = 0, !.fb = 0, !.width = 0, !.i = 0]

SprtInit ==
    /\ clock = 0
    /\ authTokens = <<>>
    /\ runs = <<>>
    /\ matches = <<>>
    /\ matchGames = <<>>
    /\ tasks = <<>>
    /\ taskIDIndexed = TRUE
    /\ activeDefault = TRUE
    /\ unitOf = <<>>
    /\ pc = [p \in Procs |-> IF p = 1 THEN "sprt" ELSE "idle"]
    /\ \E n \in ResultLens :
         loc = [p \in Procs |->
                  IF p = 1 THEN [NoSprt EXCEPT !.n = n] ELSE NoLoc]
    /\ result = NoResult
    /\ calls = 0

\* the call returns: the locals stay as the call left them
SprtReturn(p, err) ==
    /\ pc' = [pc EXCEPT ![p] = "returned"]
    /\ result' = PentanomialSPRT_Result(err)

\* PentanomialSPRT, up to the first call of MLE_tvalue
PentanomialSPRT(p) ==
    /\ pc[p] = "sprt"
    /\ IF loc[p].n # 5
       THEN SprtReturn(p, ErrResultsLength) /\ UNCHANGED loc
       ELSE Goto(p, "mle", loc[p])
    /\ UNCHANGED <<clock, dbVars, calls>>

\* MLE_tvalue: the head of one iteration, down to the loop of secular.
\* stats() panics on a pdf that does not sum to 1; the uniform pdf of the
\* first iteration does.
MLE_tvalue(p) ==
    /\ pc[p] = "mle"
    /\ \E sums \in IF loc[p].iter = 0 THEN {TRUE} ELSE BOOLEAN,
          v \in Signs, w \in Signs, fa \in Signs, fb \in Signs,
          width \in BracketWidths :
         /\ v <= w
         /\ IF ~sums
            THEN /\ pc' = [pc EXCEPT ![p] = "panicked"]
                 /\ UNCHANGED <<loc, result>>
            ELSE LET l == [loc[p] EXCEPT !.v = v, !.w = w, !.fa = fa,
                                         !.fb = fb, !.width = width, !.i = 0]
                     err == secular_Entry(v, w, fa, fb)
                 IN  IF err # ""
                     THEN /\ SprtReturn(p, MLE_tvalue_Err(err))
                          /\ loc' = [loc EXCEPT ![p] = l]
                     ELSE Goto(p, "secular", l)
    /\ UNCHANGED <<clock, dbVars, calls>>

\* secular: one pass of the loop, and what follows its return in
\* MLE_tvalue and PentanomialSPRT
secular(p) ==
    /\ pc[p] = "secular"
    /\ loc[p].i < maxIter
    /\ \E small \in BOOLEAN, settled \in BOOLEAN :
         IF small \/ loc[p].width - loc[p].i <= 0
         THEN \* return c, nil
              IF settled \/ loc[p].iter + 1 >= mleIters
              THEN \* return pdfMLE, nil
                   IF loc[p].hyp = 0
                   THEN Goto(p, "mle", [AfterSecular(loc[p]) EXCEPT
                                           !.hyp = 1, !.iter = 0])
                   ELSE SprtReturn(p, "") /\ UNCHANGED loc
              ELSE Goto(p, "mle", [AfterSecular(loc[p]) EXCEPT !.iter = @ + 1])
         ELSE IF loc[p].i + 1 >= maxIter
              THEN /\ SprtReturn(p, MLE_tvalue_Err(ErrNotConverged))
                   /\ loc' = [loc EXCEPT ![p].i = @ + 1]
              ELSE Goto(p, "secular", [loc[p] EXCEPT !.i = @ + 1])
    /\ UNCHANGED <<clock, dbVars, calls>>

SprtNext ==
    \E p \in Procs : PentanomialSPRT(p) \/ MLE_tvalue(p) \/ secular(p)

SprtSpec == SprtInit /\ [][SprtNext]_vars

\* ------------------------------------------------------ the Elo estimator
\* internal/sprt: Elo.  The counts are Go ints; the floating-point results
\* are kept as what integer arithmetic decides of them: a zero, the sign of
\* a finite value, a finite value of either sign ("finite"), or NaN.

\* len(results): no bucket, one, win/draw/loss, pentanomial
EloLens == {0, 1, 3, 5}

\* the counts of a bucket
EloCounts == {-1, 0, 1, 2}

RECURSIVE EloHistograms(_)
EloHistograms(n) ==
    IF n = 0 THEN {<<>>}
    ELSE {Append(h, c) : h \in EloHistograms(n - 1), c \in EloCounts}

EloInputs == UNION {EloHistograms(n) : n \in EloLens}

\* for f, count := range results: the sum of weights[f] * count
RECURSIVE WeightedSum(_, _)
WeightedSum(results, weights) ==
    IF results = <<>> THEN 0
    ELSE Head(weights) * Head(results)
         + WeightedSum(Tail(results), Tail(weights))

\* N := 0; for _, v := range results { N += v }
EloN(results) == WeightedSum(results, [i \in 1..Len(results) |-> 1])

EloSign(x) == IF x > 0 THEN "pos" ELSE IF x < 0 THEN "neg" ELSE "0"

\* the rest of Elo, from div := float64(len(results) - 1).  With
\* S = sum f*count, mu = S/(div*N) and variance = V/(div^2 * N^3) for
\* V = sum (f*N - S)^2 * count; logisticElo(x) has the sign of x - 1/2.
EloInterval(results) ==
    LET N == EloN(results)
        div == Len(results) - 1
        S == WeightedSum(results, [i \in 1..Len(results) |-> i - 1])
        V == WeightedSum(results, [i \in 1..Len(results) |->
                                     ((i - 1) * N - S) * ((i - 1) * N - S)])
        muNaN == Len(results) > 0 /\ div = 0
        elo == IF muNaN THEN "NaN"
               ELSE IF Len(results) = 0 THEN "neg"
               ELSE EloSign((2 * S - div * N) * N)
        bound == IF muNaN \/ N < 0 \/ V * N < 0 THEN "NaN"
                 ELSE IF V = 0 THEN elo
                 ELSE "finite"
    IN  [lo |-> bound, elo |-> elo, hi |-> bound,
         divisors |-> (IF Len(results) > 0 THEN {div} ELSE {}) \cup {N}]

\* Elo without its test of N
Elo_NoDegenerateCase(results) == EloInterval(results)

\* Elo: if N == 0 || N == 1 { return 0.0, 0.0, 0.0 }, then the interval
Elo(results) ==
    IF EloN(results) = 0 \/ EloN(results) = 1
    THEN [lo |-> "0", elo |-> "0", hi |-> "0", divisors |-> {}]
    ELSE EloInterval(results)

EloInit ==
    /\ clock = 0
    /\ authTokens = <<>>
    /\ runs = <<>>
    /\ matches = <<>>
    /\ matchGames = <<>>
    /\ tasks = <<>>
    /\ taskIDIndexed = TRUE
    /\ activeDefault = TRUE
    /\ unitOf = <<>>
    /\ pc = [p \in Procs |-> IF p = 1 THEN "elo" ELSE "idle"]
    /\ \E h \in EloInputs :
         loc = [p \in Procs |->
                  IF p = 1 THEN [op |-> "Elo", results |-> h] ELSE NoLoc]
    /\ result = NoResult
    /\ calls = 0

\* one call of Elo
EloCall(p) ==
    /\ pc[p] = "elo"
    /\ pc' = [pc EXCEPT ![p] = "returned"]
    /\ result' = [op |-> "Elo", value |-> Elo(loc[p].results)]
    /\ UNCHANGED <<clock, dbVars, loc, calls>>

EloNext == \E p \in Procs : EloCall(p)

EloSpec == EloInit /\ [][EloNext]_vars

\* ================================================================ claims

Rows == 1..Len(tasks)

\* C1: every unit of work (a match, or the training of a run) has at most
\* one assignment whose status is ACTIVE.
C1_OneActiveAssignmentPerTask ==
    \A i \in Rows, j \in Rows :
        (/\ i # j
         /\ unitOf[i] = unitOf[j]
         /\ tasks[i].status = TaskStatusActive)
        => tasks[j].status # TaskStatusActive

\* C2: terminal states are final: no step changes the status of an
\* assignment that is DONE or CANCELLED, and no step reopens a done match.
C2_TerminalStatesFinal ==
    [][/\ \A i \in Rows :
            tasks[i].status \in {TaskStatusDone, TaskStatusCancelled}
            => tasks'[i].status = tasks[i].status
       /\ \A m \in DOMAIN matches : matches[m].done => matches'[m].done]_vars

\* C3: cancellation is never lost: a stored CANCELLED stays CANCELLED, also
\* across the write of a ReportProgress that read the row before it was
\* cancelled, and a ReportProgress that read CANCELLED answers CANCELLED.
C3_CancellationNeverLost ==
    [][/\ \A i \in Rows :
            tasks[i].status = TaskStatusCancelled
            => tasks'[i].status = TaskStatusCancelled
       /\ \A p \in Procs :
            (/\ pc[p] = "rp_save"
             /\ loc[p].task.status = TaskStatusCancelled
             /\ result'.op = "ReportProgress"
             /\ result'.status = "ok")
            => result'.kind = "CANCELLED"]_vars

\* an ACTIVE assignment whose last heartbeat is older than the timeout
StaleActive(i) ==
    /\ i \in Rows
    /\ tasks[i].status = TaskStatusActive
    /\ clock - tasks[i].lastHeartbeatAt > HeartbeatTimeout

\* C4: an ACTIVE assignment whose heartbeat is older than the timeout is
\* eventually reaped (it becomes CANCELLED), whatever the clients do.
C4_StaleAssignmentReaped ==
    \A i \in 1..MaxTasks :
        [](StaleActive(i) => <>(i \in Rows /\ tasks[i].status = TaskStatusCancelled))

\* C5: the task identifiers of the successful GetNextTask responses are
\* pairwise distinct, and a later response never carries a smaller
\* identifier than an earlier one.  (A response is issued with the insert
\* of its row, so the rows are in response order.)
C5_TaskIDsUniqueAndOrdered ==
    \A i \in Rows, j \in Rows :
        i < j => /\ tasks[i].taskID # tasks[j].taskID
                 /\ ~TaskIDLess(tasks[j].taskID, tasks[i].taskID)

\* C6: match-game creation is atomic with its flip: no two records share an
\* identifier, and no record is ever stored with a flip other than the one
\* derived from its identifier.
C6_GameAndFlipAtomic ==
    /\ \A g \in 1..Len(matchGames), h \in 1..Len(matchGames) :
         g # h => matchGames[g].id # matchGames[h].id
    /\ \A g \in 1..Len(matchGames) :
         matchGames[g].flip = FlipOf(matchGames[g].id)

\* the step is the successful return of a match progress report on a MATCH
\* assignment of match m
MatchReportReturns(m) ==
    /\ result'.op = "ReportProgress"
    /\ result'.status = "ok"
    /\ result'.progress = "Match"
    /\ unitOf[result'.row] = <<TaskTypeMatch, m>>

\* C7: a match progress report on an assigned game slot increments the
\* match's games_created by exactly one.
C7_ReportIncrementsGamesCreated ==
    [][\A m \in DOMAIN matches :
         MatchReportReturns(m)
         => matches'[m].gamesCreated = matches[m].gamesCreated + 1]_vars

\* C8: once a match progress report has returned for a match that was one
\* game short of its cap, games_created has reached game_cap, the match is
\* done and the assignment is DONE.
C8_CapReachedMeansDone ==
    (/\ result.op = "ReportProgress"
     /\ result.status = "ok"
     /\ result.progress = "Match"
     /\ unitOf[result.row][1] = TaskTypeMatch)
    => LET m == unitOf[result.row][2] IN
       /\ matches[m].gamesCreated >= matches[m].gameCap
       /\ matches[m].done
       /\ tasks[result.row].status = TaskStatusDone

\* C9: the transition to DONE happens once: no step of a handler changes
\* the status or completed_at of an assignment that is DONE.
C9_DoneOnce ==
    [][\A i \in Rows :
         tasks[i].status = TaskStatusDone
         => /\ tasks'[i].status = TaskStatusDone
            /\ tasks'[i].completedAt = tasks[i].completedAt]_vars

\* the matches eligible for the caller of the response that made row i
EligibleFor(i) ==
    PendingMatches(IF unitOf[i][1] = TaskTypeTraining
                   THEN unitOf[i][2] ELSE matches[unitOf[i][2]].trainingRunID,
                   SliceOf(authTokens[tasks[i].assignedTokenID].token))

\* C10: match first: a TRAINING payload is returned only when the selected
\* run has no match eligible for the caller.
C10_MatchFirst ==
    (/\ result.op = "GetNextTask"
     /\ result.status = "ok"
     /\ result.kind = TaskTypeTraining)
    => EligibleFor(result.row) = {}

\* match m is not done, belongs to the lowest-id active run, and its target
\* slice is 0 or the slice of the caller's token
EligibleMatch(m, token) ==
    /\ ~matches[m].done
    /\ \E r \in DOMAIN runs :
         /\ runs[r].active
         /\ \A r2 \in DOMAIN runs : r2 < r => ~runs[r2].active
         /\ matches[m].trainingRunID = r
    /\ \/ matches[m].targetSlice = 0
       \/ matches[m].targetSlice = (SumBytes(token) % 3) + 1

\* C11: the match GetNextTask hands out is the lowest-id match that is not
\* done, belongs to the selected run and has target slice 0 or the caller's
\* slice; this holds for the match a running handler has selected, for every
\* MATCH assignment, and every match-game record belongs to such a match.
C11_LowestEligibleMatch ==
    /\ \A p \in Procs :
         loc[p].match # NULL
         => /\ EligibleMatch(loc[p].match, loc[p].token)
            /\ \A m2 \in DOMAIN matches :
                 m2 < loc[p].match => ~EligibleMatch(m2, loc[p].token)
    /\ \A i \in Rows :
         tasks[i].taskType = TaskTypeMatch
         => LET m == unitOf[i][2]
                token == authTokens[tasks[i].assignedTokenID].token
            IN /\ EligibleMatch(m, token)
               /\ \A m2 \in DOMAIN matches : m2 < m => ~EligibleMatch(m2, token)
    /\ \A g \in 1..Len(matchGames) :
         \E t \in TokenInputs : EligibleMatch(matchGames[g].matchID, t)

\* a caller of slice 1 holds a MATCH assignment of the any-slice match 2,
\* the match 1 of slice 2, not done, having been passed over
C11_Witness ==
    \E i \in Rows :
        /\ tasks[i].taskType = TaskTypeMatch
        /\ unitOf[i] = <<TaskTypeMatch, 2>>
        /\ authTokens[tasks[i].assignedTokenID].token = TokC
        /\ ~matches[1].done

\* the step in which the handler p, in getNextTrainingTask, returns
TrainingReturn(p) == pc[p] = "gnt_train_ins" /\ pc'[p] = "idle"

\* C12: training fallback.  A GetNextTask call that finds no eligible match
\* goes to getNextTrainingTask; and a call that returns from there either
\* reports a repository error and has stored nothing, or returns a TRAINING
\* payload carrying the hash of the run's best network and the run's
\* train-book, and has recorded exactly one new assignment, of type
\* TRAINING, ACTIVE, for the caller's token, and no match-game record.
C12_TrainingFallback ==
    [][\A p \in Procs :
        /\ (/\ pc[p] = "idle"
            /\ loc'[p].op = "GetNextTask"
            /\ \A m \in DOMAIN matches : ~EligibleMatch(m, loc'[p].token))
           => pc'[p] = "gnt_train_id"
        /\ TrainingReturn(p)
           => \/ /\ result'.status = "error"
                 /\ tasks' = tasks
              \/ /\ result'.op = "GetNextTask"
                 /\ result'.status = "ok"
                 /\ result'.kind = TaskTypeTraining
                 /\ result'.payload =
                      <<NetworkSha(runs[loc[p].run].bestNetworkID),
                        runs[loc[p].run].trainBook>>
                 /\ result'.payload[1] # ""
                 /\ Len(tasks') = Len(tasks) + 1
                 /\ SubSeq(tasks', 1, Len(tasks)) = tasks
                 /\ result'.row = Len(tasks')
                 /\ tasks'[Len(tasks')].taskType = TaskTypeTraining
                 /\ tasks'[Len(tasks')].status = TaskStatusActive
                 /\ tasks'[Len(tasks')].assignedTokenID = loc[p].tok
                 /\ matchGames' = matchGames]_vars

\* a TRAINING payload has been returned to a caller for whom the selected
\* run has no eligible match
C12_Witness ==
    /\ result.op = "GetNextTask"
    /\ result.status = "ok"
    /\ result.kind = TaskTypeTraining
    /\ tasks[result.row].taskType = TaskTypeTraining
    /\ \A m \in DOMAIN matches :
         ~EligibleMatch(m, authTokens[tasks[result.row].assignedTokenID].token)

\* no training run has its active flag set
NoActiveRun == \A r \in DOMAIN runs : ~runs[r].active

\* C13: a running GetNextTask works on the lowest-id run whose active flag
\* is true; and where no run is active, GetNextTask returns no payload (its
\* result is an error) and no match-game record or assignment exists.
C13_LowestActiveRunOrError ==
    /\ \A p \in Procs :
         loc[p].op = "GetNextTask"
         => /\ runs[loc[p].run].active
            /\ \A r2 \in DOMAIN runs : r2 < loc[p].run => ~runs[r2].active
    /\ \A i \in Rows :
         LET r == IF unitOf[i][1] = TaskTypeTraining
                  THEN unitOf[i][2] ELSE matches[unitOf[i][2]].trainingRunID
         IN runs[r].active /\ \A r2 \in DOMAIN runs : r2 < r => ~runs[r2].active
    /\ NoActiveRun
       => /\ matchGames = <<>>
          /\ tasks = <<>>
          /\ \A p \in Procs : loc[p].op # "GetNextTask"
          /\ result.op = "GetNextTask" => result.status = "error"

\* no run is active and a GetNextTask call of a stored token (its row's
\* last_used_at has been written) has been answered with an error
C13_Witness ==
    /\ NoActiveRun
    /\ result.op = "GetNextTask"
    /\ result.status = "error"
    /\ result.err = "RecordNotFound"
    /\ \E i \in DOMAIN authTokens : authTokens[i].lastUsedAt # NULL

\* C14: every MATCH payload returned carries the content hash of an
\* existing network for the baseline and for the candidate engine.
C14_MatchPayloadResolved ==
    (/\ result.op = "GetNextTask"
     /\ result.status = "ok"
     /\ result.kind = TaskTypeMatch)
    => /\ result.payload[1] # ""
       /\ result.payload[2] # ""

\* C15: a repository error in a step of the assignment is surfaced: a
\* handler that had selected a match returns a successful payload only if
\* it is the MATCH payload (neither insert of the match branch failed) and
\* the flip of its match-game record has been stored.
C15_RepositoryErrorsSurfaced ==
    [][\A p \in Procs :
        (/\ loc[p].op = "GetNextTask"
         /\ loc[p].match # NULL
         /\ pc'[p] = "idle"
         /\ result'.status = "ok")
        => /\ result'.kind = TaskTypeMatch
           /\ matchGames'[loc[p].mg].flip = ((loc[p].mg % 2) = 1)]_vars

\* the GetNextTask call that created match-game record g has returned
CreatorReturned(g) == \A p \in Procs : loc[p].mg # g

\* C17: once the call that created a match-game record has returned, the
\* stored flip equals (id mod 2 == 1).
C17_FlipStoredAfterReturn ==
    \A g \in 1..Len(matchGames) :
        CreatorReturned(g)
        => matchGames[g].flip = ((matchGames[g].id % 2) = 1)

\* C16: the slice is a pure function of the token string: for a non-empty
\* token it is in {1,2,3} and equals (sum of the bytes mod 3) + 1, for the
\* empty token it is 1, and two computations on the same token agree.
C16_SliceIsPureFunction ==
    \A p \in Procs :
        pc[p] = "sliced"
        => /\ loc[p].token = <<>> => loc[p].slice = 1
           /\ loc[p].token # <<>>
              => /\ loc[p].slice \in {1, 2, 3}
                 /\ (SumBytes(loc[p].token) - (loc[p].slice - 1)) % 3 = 0
           /\ \A q \in Procs :
                (pc[q] = "sliced" /\ loc[q].token = loc[p].token)
                => loc[q].slice = loc[p].slice

\* the slice of the empty token and a slice 3 of a non-empty token have
\* been computed
C16_Witness ==
    \E p \in Procs, q \in Procs :
        /\ pc[p] = "sliced" /\ loc[p].token = <<>> /\ loc[p].slice = 1
        /\ pc[q] = "sliced" /\ loc[q].token # <<>> /\ loc[q].slice = 3

\* C18: MigrateCredentials returns a token only when the supplied username
\* and password are those of a legacy user record.
C18_PasswordMustMatch ==
    [][\A p \in Procs :
        (/\ loc[p].op = "MigrateCredentials"
         /\ result'.op = "MigrateCredentials"
         /\ result'.status = "ok"
         /\ pc'[p] = "idle")
        => \E u \in DOMAIN Users :
             /\ Users[u].username = loc[p].username
             /\ Users[u].password = loc[p].password]_vars

\* C19: all stored tokens are pairwise distinct, and a successful response
\* of MigrateCredentials or GetAnonymousToken returns the token of the row
\* it has just stored (so no two responses return the same string).
C19_TokensDistinct ==
    /\ \A i \in DOMAIN authTokens, j \in DOMAIN authTokens :
         i # j => authTokens[i].token # authTokens[j].token
    /\ (/\ result.op \in {"MigrateCredentials", "GetAnonymousToken"}
        /\ result.status = "ok")
       => /\ result.row = Len(authTokens)
          /\ result.payload = authTokens[result.row].token

\* a call passed the uniqueness check with a candidate that another call
\* has stored since, and still has its insert before it
C19_Witness ==
    \E p \in Procs :
        /\ pc[p] = "auth_ins"
        /\ \E i \in DOMAIN authTokens :
             /\ authTokens[i].token = loc[p].token
             /\ authTokens[i].issuedReason # TokenReasonManual

\* C20: every token GetAnonymousToken or MigrateCredentials has returned
\* passes validateToken when presented unchanged: it has the token format
\* and the lookup finds its row.
C20_IssuedTokenValidates ==
    \A i \in DOMAIN authTokens :
        authTokens[i].issuedReason \in {TokenReasonAnonymous, TokenReasonMigrated}
        => validateTokenErr(authTokens[i].token, "ok") = ""

\* C21: a token shorter than 5 characters or without the prefix "lc0-" is
\* rejected by GetNextTask and by ReportProgress with InvalidArgument, and
\* the call changes no auth token, match-game record or assignment.
C21_BadFormatRejected ==
    [][\A p \in Procs, token \in TokenInputs :
        (/\ Len(token) < 5 \/ SubSeq(token, 1, 4) # <<108, 99, 48, 45>>
         /\ \/ GetNextTask(p, token)
            \/ \E taskID \in TaskIDInputs : ReportProgress(p, token, taskID))
        => /\ pc'[p] = "idle"
           /\ result'.status = "error"
           /\ StatusCode(result'.err) = "InvalidArgument"
           /\ authTokens' = authTokens
           /\ matchGames' = matchGames
           /\ tasks' = tasks]_vars

\* C24: ReportProgress with a valid token and a task identifier that no
\* assignment carries fails with NotFound and changes no assignment.
C24_UnknownTaskNotFound ==
    [][\A p \in Procs, token \in TokenInputs, taskID \in TaskIDInputs :
        (/\ ReportProgress(p, token, taskID)
         /\ \E i \in DOMAIN authTokens :
              authTokens[i].token = token /\ authTokens[i].active
         /\ \A i \in 1..Len(tasks) : tasks[i].taskID # taskID)
        => /\ pc'[p] = "idle"
           /\ result'.status = "error"
           /\ tasks' = tasks
           /\ \/ StatusCode(result'.err) = "NotFound"
              \/ result'.err = "DBError"]_vars

\* the step is a MigrateCredentials call that fails and has neither started
\* the token generation nor stored a token
MigrateRejected(p, code) ==
    /\ pc'[p] = "idle"
    /\ result'.op = "MigrateCredentials"
    /\ result'.status = "error"
    /\ result'.err = code
    /\ authTokens' = authTokens

\* C22: MigrateCredentials with an empty username, a username of more than
\* 32 characters or an empty password fails with InvalidArgument; with a
\* username no user record carries it fails with NotFound (Internal where
\* the lookup itself fails); in all these cases no token is generated or
\* inserted.
C22_MigrateArgumentErrors ==
    [][\A p \in Procs, username \in UsernameInputs, password \in PasswordInputs :
        MigrateCredentials(p, username, password)
        => /\ (Len(username) = 0 \/ Len(username) > 32 \/ Len(password) = 0)
              => MigrateRejected(p, "InvalidArgument")
           /\ (/\ Len(username) \in 1..32
               /\ Len(password) > 0
               /\ \A u \in DOMAIN Users : Users[u].username # username)
              => \/ MigrateRejected(p, "NotFound")
                 \/ MigrateRejected(p, "Internal")]_vars

\* MigrateCredentials has answered NotFound and no token has been issued
C22_Witness ==
    /\ result.op = "MigrateCredentials"
    /\ result.err = "NotFound"
    /\ \A i \in DOMAIN authTokens : authTokens[i].issuedReason = TokenReasonManual

\* C23: token generation ends after at most 10 candidates: a candidate is
\* returned only if no stored token equals it and fewer than 10 candidates
\* collided before it; every collision counts; after 10 collisions the
\* call fails with Internal; and no step of the generation stores a row.
\* (Every round of the loop either ends the generation or adds one to the
\* count of collisions, which never exceeds 10: the generation terminates.)
C23_GenerationBounded ==
    [][\A p \in Procs :
        (pc[p] = "auth_gen" /\ (pc'[p] # pc[p] \/ loc'[p] # loc[p]))
        => /\ loc[p].attempt <= 10
           /\ authTokens' = authTokens
           /\ pc'[p] = "auth_ins"
              => /\ loc[p].attempt < 10
                 /\ Len(loc'[p].token) = 4 + 64
                 /\ \A i \in DOMAIN authTokens :
                      authTokens[i].token # loc'[p].token
           /\ pc'[p] = "auth_gen"
              => /\ loc[p].attempt < 10
                 /\ loc'[p].attempt = loc[p].attempt + 1
           /\ loc[p].attempt = 10 => pc'[p] = "idle"
           /\ pc'[p] = "idle"
              => /\ result'.status = "error"
                 /\ result'.err = "Internal"]_vars

\* ten candidates of one call have collided with stored tokens
C23_Witness ==
    \E p \in Procs : pc[p] = "auth_gen" /\ loc[p].attempt = 10

\* the step in which the ReportProgress call of p returns successfully
ReportReturns(p) ==
    /\ pc[p] = "rp_save"
    /\ pc'[p] = "idle"
    /\ result'.op = "ReportProgress"
    /\ result'.status = "ok"

\* C25: every successful ReportProgress sets the assignment's
\* last_heartbeat_at to the time the call read for the report, whatever the
\* status of the assignment and the kind of the progress payload.
C25_HeartbeatWritten ==
    [][\A p \in Procs :
        ReportReturns(p)
        => /\ result'.row = loc[p].task.id
           /\ tasks'[result'.row].lastHeartbeatAt = loc[p].now]_vars

\* an SPRT progress report on an assignment that is PENDING has returned
\* and the heartbeat, 0 at assignment, is the later time of the report
C25_Witness ==
    /\ result.op = "ReportProgress"
    /\ result.status = "ok"
    /\ result.progress = "Sprt"
    /\ tasks[result.row].status = TaskStatusPending
    /\ tasks[result.row].assignedAt = 0
    /\ tasks[result.row].lastHeartbeatAt = 1

\* C26: a heartbeat changes only liveness: the step in which ReportProgress
\* writes leaves every column of the assignment other than
\* last_heartbeat_at, and every other assignment, as they were.
C26_HeartbeatOnlyLiveness ==
    [][\A p \in Procs :
        (pc[p] = "rp_save" /\ pc'[p] = "idle")
        => /\ Len(tasks') = Len(tasks)
           /\ \A i \in 1..Len(tasks) :
                tasks'[i] = IF i = loc[p].task.id
                            THEN [tasks[i] EXCEPT !.lastHeartbeatAt =
                                                    tasks'[i].lastHeartbeatAt]
                            ELSE tasks[i]]_vars

\* C27: a successful SPRT progress report on an ACTIVE SPRT task leaves the
\* task DONE where the verdict on its tally is accept or reject, and ACTIVE
\* where the verdict is continue or the evaluation failed.
C27_SprtVerdictApplied ==
    [][\A p \in Procs :
        (/\ ReportReturns(p)
         /\ result'.progress = "Sprt"
         /\ tasks[loc[p].task.id].taskType = "SPRT"
         /\ tasks[loc[p].task.id].status = "ACTIVE"
         /\ loc[p].task.status = "ACTIVE")
        => tasks'[loc[p].task.id].status =
             IF result'.payload[2] \in {"accept", "reject"}
             THEN "DONE" ELSE "ACTIVE"]_vars

\* C28: no progress report that uploads game results (a match or an SPRT
\* report) from a client below the configured minimum version is accepted.
C28_OldClientRejected ==
    (/\ result.op = "ReportProgress"
     /\ result.status = "ok"
     /\ result.progress \in {"Match", "Sprt"})
    => result.payload[1] >= MinClientVersion

\* C29: no step of GetNextTask, ReportProgress, MigrateCredentials or
\* GetAnonymousToken changes a training run (its active flag, its best
\* network) or a match: the calls write auth tokens, match-game records and
\* assignments only.  (The users and the networks are read through Users
\* and NetworkSha, which no step can change.)
C29_WritesOnlyOwnTables ==
    [][/\ runs' = runs
       /\ matches' = matches
       /\ taskIDIndexed' = taskIDIndexed
       /\ \A i \in DOMAIN authTokens :
            /\ authTokens'[i].token = authTokens[i].token
            /\ authTokens'[i].userID = authTokens[i].userID]_vars

\* a match game and an assignment have been stored, a token has been
\* issued, and a ReportProgress call has returned
C29_Witness ==
    /\ Len(matchGames) > 0
    /\ Len(tasks) > 0
    /\ \E i \in DOMAIN authTokens : authTokens[i].issuedReason # TokenReasonManual
    /\ result.op = "ReportProgress"
    /\ result.status = "ok"

\* C30: PentanomialSPRT reports every failure condition as an explicit
\* error and never as a zero LLR without one: a call with len(results) # 5
\* returns the length error; a call in which secular met v*w >= 0, values
\* of f of the same sign at the two bracket endpoints, or maxIter passes of
\* its loop without convergence returns that error of secular; and a call
\* that returns an LLR had five results and both hypotheses solved with
\* none of these conditions met.
SecularFailure(l) ==
    IF l.n # 5 THEN ""
    ELSE IF l.v * l.w >= 0 THEN ErrSecularSign
    ELSE IF l.fa * l.fb > 0 THEN ErrNotBracketed
    ELSE IF l.i >= 100 THEN ErrNotConverged
    ELSE ""

C30_FailuresAreErrors ==
    \A p \in Procs :
        pc[p] = "returned" =>
            /\ result.op = "PentanomialSPRT"
            /\ loc[p].n # 5 =>
                 result.err = ErrResultsLength
            /\ (loc[p].n = 5 /\ SecularFailure(loc[p]) # "") =>
                 result.err = SecularFailure(loc[p])
            /\ result.err = "" =>
                 /\ result.kind = "N*s"
                 /\ loc[p].n = 5
                 /\ loc[p].hyp = 1
                 /\ SecularFailure(loc[p]) = ""
            /\ result.err # "" => result.kind = "0" /\ result.status = "error"

\* a call whose secular ran its 100 passes without converging has returned
C30_Witness ==
    \E p \in Procs :
        /\ pc[p] = "returned"
        /\ loc[p].n = 5
        /\ loc[p].i = 100
        /\ loc[p].hyp = 1
        /\ result.err = ErrNotConverged

\* C31: Elo returns (0, 0, 0) for the empty histogram and for every
\* histogram (buckets of non-negative counts) whose total count is at most
\* 1, and divides by nothing on the way.
C31_DegenerateEloIsZero ==
    \A p \in Procs :
        (/\ pc[p] = "returned"
         /\ result.op = "Elo"
         /\ \A i \in 1..Len(loc[p].results) : loc[p].results[i] >= 0
         /\ SumBytes(loc[p].results) <= 1)
        => result.value = [lo |-> "0", elo |-> "0", hi |-> "0",
                           divisors |-> {}]

\* Elo has returned for a pentanomial histogram with a single observation
C31_Witness ==
    \E p \in Procs :
        /\ pc[p] = "returned"
        /\ result.op = "Elo"
        /\ loc[p].results = <<0, 0, 0, 1, 0>>
        /\ result.value.elo = "0"

\* the step in which the GetNextTask call of p returns
GetNextTaskReturns(p) ==
    /\ loc[p].op = "GetNextTask"
    /\ pc'[p] = "idle"

\* C34: GetNextTask is all-or-nothing with respect to the match-game slot:
\* a call that has created a match-game record returns a MATCH payload
\* together with a new MATCH assignment; a call that returns an error or a
\* TRAINING payload has created no match-game record.
C34_GameSlotAllOrNothing ==
    [][\A p \in Procs :
        (GetNextTaskReturns(p) /\ loc[p].mg # NULL)
        => /\ result'.status = "ok"
           /\ result'.kind = "MATCH"
           /\ Len(tasks') = Len(tasks) + 1
           /\ tasks'[result'.row].taskType = "MATCH"]_vars

\* C35: every successful GetNextTask creates exactly one new assignment row:
\* the row is added in the step in which the call returns and in no other
\* step, its task id is the id returned to the client, its type is the kind
\* of the returned payload (MATCH or TRAINING), its status is ACTIVE, its
\* assigned token is the caller's token, and its assigned_at equals its
\* last_heartbeat_at.
C35_OneAssignmentPerSuccess ==
    [][/\ \A p \in Procs :
            (GetNextTaskReturns(p) /\ result'.status = "ok")
            => /\ Len(tasks') = Len(tasks) + 1
               /\ SubSeq(tasks', 1, Len(tasks)) = tasks
               /\ LET t == tasks'[Len(tasks')] IN
                    /\ t.taskID = result'.taskID
                    /\ result'.kind \in {"MATCH", "TRAINING"}
                    /\ t.taskType = result'.kind
                    /\ t.status = "ACTIVE"
                    /\ t.assignedTokenID # NULL
                    /\ authTokens[t.assignedTokenID].token = loc[p].token
                    /\ t.assignedAt # NULL
                    /\ t.assignedAt = t.lastHeartbeatAt
       /\ Len(tasks') # Len(tasks)
          => \E p \in Procs : GetNextTaskReturns(p) /\ result'.status = "ok"]_vars

\* a GetNextTask call has returned a MATCH payload for the second stored
\* assignment
C35_Witness ==
    /\ result.op = "GetNextTask"
    /\ result.status = "ok"
    /\ result.kind = "MATCH"
    /\ result.row = 2
    /\ tasks[2].taskID = result.taskID

\* C36: an assignment's last_heartbeat_at never decreases and is never
\* earlier than its assigned_at, whatever the interleaving of the
\* ReportProgress calls for the task.
C36_HeartbeatMonotonic ==
    [][\A i \in 1..Len(tasks) :
          /\ tasks'[i].lastHeartbeatAt >= tasks[i].lastHeartbeatAt
          /\ tasks'[i].lastHeartbeatAt >= tasks'[i].assignedAt]_vars

\* C37: the status a successful ReportProgress returns is CANCELLED exactly
\* when the status of the assignment, as that call read it, is CANCELLED,
\* and ACTIVE in every other case (DONE and PENDING included).
C37_AnswerIsCancelledOrActive ==
    [][\A p \in Procs :
        ReportReturns(p)
        => /\ result'.kind \in {"CANCELLED", "ACTIVE"}
           /\ result'.kind = "CANCELLED" <=> loc[p].task.status = "CANCELLED"]_vars

\* a report on an assignment that is DONE has been answered ACTIVE
C37_Witness ==
    /\ result.op = "ReportProgress"
    /\ result.status = "ok"
    /\ result.kind = "ACTIVE"
    /\ tasks[result.row].status = TaskStatusDone

\* C38: ReportProgress does not compare the caller with the assignee: a call
\* with a stored, active token and the task id of a stored assignment is
\* refused for no reason other than a failed database statement, whoever
\* the assignee is; and every call that returns successfully has refreshed
\* the heartbeat of the assignment with that task id and is answered its
\* status as read.
C38_AssigneeNotCompared ==
    [][\A p \in Procs :
        /\ \A token \in TokenInputs, taskID \in TaskIDInputs :
             (/\ ReportProgress(p, token, taskID)
              /\ \E i \in DOMAIN authTokens :
                    authTokens[i].token = token /\ authTokens[i].active
              /\ \E i \in 1..Len(tasks) : tasks[i].taskID = taskID)
             => \/ result'.err = "DBError"
                \/ /\ pc'[p] = "rp_save"
                   /\ loc'[p].task.taskID = taskID
        /\ ReportReturns(p)
           => /\ tasks'[result'.row].taskID = loc[p].taskID
              /\ tasks'[result'.row].lastHeartbeatAt = loc[p].now
              /\ result'.kind = IF loc[p].task.status = "CANCELLED"
                                THEN "CANCELLED" ELSE "ACTIVE"]_vars

\* a report has returned successfully for assignment 1, made to token 1,
\* which has never been used: the caller was the other token
C38_Witness ==
    /\ result.op = "ReportProgress"
    /\ result.status = "ok"
    /\ result.row = 1
    /\ tasks[1].assignedTokenID = 1
    /\ tasks[1].lastHeartbeatAt = 1
    /\ authTokens[1].lastUsedAt = NULL
    /\ authTokens[2].lastUsedAt # NULL

====
